---- MODULE Spec2Model ----
(***************************************************************************)
(* Model of package codes (codes.go): the Code enumeration and its         *)
(* description, Err / NewErr / Err.Error, ErrorResponse.Error and          *)
(* sanitizeURL, together with the parts of net/url that sanitizeURL uses   *)
(* (URL.Query, Values.Get, Values.Set, Values.Encode, URL.String).         *)
(*                                                                         *)
(* Strings that the code inspects or rebuilds (query strings, rendered     *)
(* messages) are sequences of lexemes: a lexeme is a word of unreserved    *)
(* characters or one of the characters / escapes listed below.             *)
(***************************************************************************)
EXTENDS Integers, Sequences, FiniteSets, TLC

\* ------------------------------------------------------------------ bounds
MaxSegs == 2
MaxCode == 7
NumThreads == 2

\* ------------------------------------------------------------------ Code
Success == 0
InvalidToken == 1
Unauthenticated == 2
BadAuthenticationData == 3
BadInputData == 4
Internal == 5

DefinedCodes == {Success, InvalidToken, Unauthenticated,
                 BadAuthenticationData, BadInputData, Internal}

\* Code is a uint32: the six declared values and values outside them.
Codes == 0..MaxCode

Fallback == "FIXME: this should be a helpful message"

CodeString(c) ==
    CASE c = InvalidToken -> "Invalid or expired token"
      [] c = Unauthenticated -> "Unauthenticated request"
      [] c = BadAuthenticationData -> "Bad authentication data"
      [] c = BadInputData -> "Bad input data"
      [] c = Internal -> "Internal error. Please submit a query to the support team"
      [] OTHER -> Fallback

\* ------------------------------------------------------------------ Err
Messages == {"", "custom"}

NewErrKeepsEmpty(c, msg) == [Message |-> msg, Code |-> c]

NewErr(c, msg) ==
    [Message |-> IF msg = "" THEN CodeString(c) ELSE msg, Code |-> c]

ErrErrorUsesMessage(e) == <<ToString(e.Code), ":", " ", e.Message>>

\* fmt.Sprintf("%d: %s", e.Code, e.Code.String())
ErrError(e) == <<ToString(e.Code), ":", " ", CodeString(e.Code)>>

\* ------------------------------------------------------------------ net/url
Token == <<"token">>
Redacted == <<"REDACTED">>

\* Byte order of the first byte of every decoded lexeme.
ByteOrder == <<" ", "&", "+", "/", "1", "=", "ABC", "REDACTED", "SECRET",
               "a", "b", "token">>

Rank(a) == CHOOSE i \in 1..Len(ByteOrder) : ByteOrder[i] = a

Min(a, b) == IF a < b THEN a ELSE b

\* strings.Compare on lexeme sequences
RECURSIVE LexLess(_, _)
LexLess(s, t) ==
    IF t = <<>> THEN FALSE
    ELSE IF s = <<>> THEN TRUE
    ELSE IF Rank(Head(s)) # Rank(Head(t)) THEN Rank(Head(s)) < Rank(Head(t))
    ELSE LexLess(Tail(s), Tail(t))

\* strings.Index: position of the first a in s, 0 when there is none
RECURSIVE IndexFrom(_, _, _)
IndexFrom(s, a, i) ==
    IF i > Len(s) THEN 0
    ELSE IF s[i] = a THEN i
    ELSE IndexFrom(s, a, i + 1)

Index(s, a) == IndexFrom(s, a, 1)

\* strings.Cut: the text before and after the first separator
CutBefore(s, sep) ==
    IF Index(s, sep) = 0 THEN s ELSE SubSeq(s, 1, Index(s, sep) - 1)

CutAfter(s, sep) ==
    IF Index(s, sep) = 0 THEN <<>> ELSE SubSeq(s, Index(s, sep) + 1, Len(s))

\* url.QueryUnescape fails on a malformed percent escape
ValidEscapes(s) == \A i \in 1..Len(s) : s[i] # "%zz"

UnescapeLexeme(a) ==
    CASE a = "+" -> " "
      [] a = "%2F" -> "/"
      [] a = "%3D" -> "="
      [] a = "%26" -> "&"
      [] a = "%2B" -> "+"
      [] OTHER -> a

QueryUnescape(s) == [i \in 1..Len(s) |-> UnescapeLexeme(s[i])]

EscapeLexeme(a) ==
    CASE a = " " -> "+"
      [] a = "/" -> "%2F"
      [] a = "=" -> "%3D"
      [] a = "&" -> "%26"
      [] a = "+" -> "%2B"
      [] OTHER -> a

QueryEscape(s) == [i \in 1..Len(s) |-> EscapeLexeme(s[i])]

\* url.Values is map[string][]string
EmptyValues == [k \in {} |-> <<>>]

AddValue(m, k, v) ==
    IF k \in DOMAIN m THEN [m EXCEPT ![k] = Append(@, v)]
    ELSE m @@ (k :> <<v>>)

\* url.ParseQuery; URL.Query drops its error
RECURSIVE parseQuery(_, _)
parseQuery(m, query) ==
    IF query = <<>> THEN m
    ELSE LET seg == CutBefore(query, "&")
             rest == CutAfter(query, "&")
             key == CutBefore(seg, "=")
             value == CutAfter(seg, "=")
         IN IF seg = <<>> \/ ~ValidEscapes(key) \/ ~ValidEscapes(value)
            THEN parseQuery(m, rest)
            ELSE parseQuery(AddValue(m, QueryUnescape(key), QueryUnescape(value)), rest)

Query(u) == parseQuery(EmptyValues, u.RawQuery)

\* Values.Get: the first value of the key, "" when there is none
Get(m, k) ==
    IF k \notin DOMAIN m \/ m[k] = <<>> THEN <<>> ELSE m[k][1]

SetAppends(m, k, v) == AddValue(m, k, v)

\* Values.Set: replaces every value of the key
Set(m, k, v) == [x \in DOMAIN m \cup {k} |-> IF x = k THEN <<v>> ELSE m[x]]

MinKey(ks) == CHOOSE k \in ks : \A o \in ks \ {k} : LexLess(k, o)

RECURSIVE EncodeValues(_, _, _)
EncodeValues(buf, k, vs) ==
    IF vs = <<>> THEN buf
    ELSE EncodeValues((IF buf = <<>> THEN <<>> ELSE buf \o <<"&">>)
                        \o QueryEscape(k) \o <<"=">> \o QueryEscape(Head(vs)),
                      k, Tail(vs))

RECURSIVE EncodeKeys(_, _, _)
EncodeKeys(buf, m, ks) ==
    IF ks = {} THEN buf
    ELSE EncodeKeys(EncodeValues(buf, MinKey(ks), m[MinKey(ks)]), m, ks \ {MinKey(ks)})

\* Values.Encode: "k=v" pairs joined by "&", sorted by key
Encode(m) == EncodeKeys(<<>>, m, DOMAIN m)

\* URL.String for a URL with scheme, host, path, query and fragment
URLString(u) ==
    <<u.Scheme, "://", u.Host, u.Path>>
      \o (IF u.RawQuery # <<>> THEN <<"?">> \o u.RawQuery ELSE <<>>)
      \o (IF u.Fragment # "" THEN <<"#", u.Fragment>> ELSE <<>>)

\* ------------------------------------------------------------------ sanitizeURL
NilPtr == "nil"
URLPtr == "url"

sanitizeURLAlwaysEncodes(p, u) ==
    IF p = NilPtr THEN u
    ELSE [u EXCEPT !.RawQuery = Encode(Query(u))]

\* The value of the URL object after sanitizeURL(p); the call returns p.
sanitizeURL(p, u) ==
    IF p = NilPtr THEN u
    ELSE LET params == Query(u)
         IN IF Len(Get(params, Token)) > 0
            THEN [u EXCEPT !.RawQuery = Encode(Set(params, Token, Redacted))]
            ELSE u

\* ------------------------------------------------------------------ inputs
Segments == { <<>>,
              <<"token", "=", "SECRET">>,
              <<"token", "=", "ABC">>,
              <<"token", "=">>,
              <<"a", "=", "1">>,
              <<"a", "=", "/">>,
              <<"b", "=", "%zz">>,
              <<"b", "=", "+">> }

RECURSIVE QueriesOfLen(_)
QueriesOfLen(n) ==
    IF n = 0 THEN {<<>>}
    ELSE IF n = 1 THEN Segments
    ELSE {q \o <<"&">> \o s : q \in QueriesOfLen(n - 1), s \in Segments}

RawQueries == UNION {QueriesOfLen(n) : n \in 0..MaxSegs}

URLs == [Scheme : {"https"}, Host : {"api.example.com"}, Path : {"/x"},
         RawQuery : RawQueries, Fragment : {"", "top"}]

ExampleURL == [Scheme |-> "https", Host |-> "api.example.com", Path |-> "/x",
               RawQuery |-> <<"token", "=", "ABC">>, Fragment |-> ""]

\* The object a nil pointer does not point to.
NoURL == [Scheme |-> "", Host |-> "", Path |-> "", RawQuery |-> <<>>, Fragment |-> ""]

\* http.Response values with their request populated
Responses(p) ==
    { [Request |-> [Method |-> "GET", URL |-> p], StatusCode |-> 401],
      [Request |-> [Method |-> "POST", URL |-> p], StatusCode |-> 500] }

\* Renderings of the method value r.Error under the verb %v: the address
\* of its code, which the build fixes.
MethodValueAddrs == {"0x4a1b20", "0x10a3f60"}

NewResponse(res) == [Response |-> res]

NewErrorResponse(res, e) == [Response |-> res, Err |-> e]

\* fmt.Sprintf("%v %v: %d %v", Method, sanitizeURL(URL), StatusCode, r.Error)
\* given the URL object as sanitizeURL left it; fn renders r.Error.
Sprintf(r, after, fn) ==
    <<r.Response.Request.Method, " ">>
      \o (IF r.Response.Request.URL = NilPtr THEN <<"<nil>">> ELSE URLString(after))
      \o <<":", " ", ToString(r.Response.StatusCode), " ", fn>>

ErrorResponseError(r, u, fn) == Sprintf(r, sanitizeURL(r.Response.Request.URL, u), fn)

\* ------------------------------------------------------------------ state
VARIABLES
    r,          \* the ErrorResponse at hand
    url,        \* the url.URL object r.Response.Request.URL points to
    url0,       \* that object as the caller built it
    sanitized,  \* sanitizeURL has been applied to url
    op,         \* the operation called last
    arg,        \* its inputs and what it found
    ret,        \* what it returned
    pc,         \* position of each concurrent ErrorResponse.Error call
    pend,       \* per call: the query string it is about to store
    out         \* per call: the string it returned

vars == <<r, url, url0, sanitized, op, arg, ret, pc, pend, out>>

Threads == 1..NumThreads

conc == <<pc, pend, out>>

Init ==
    /\ \E p \in {NilPtr, URLPtr}, c \in Codes, msg \in Messages :
          \E res \in Responses(p) : r = NewErrorResponse(res, NewErr(c, msg))
    /\ IF r.Response.Request.URL = NilPtr THEN url = NoURL ELSE url \in URLs
    /\ url0 = url
    /\ sanitized = FALSE
    /\ op = "init"
    /\ arg = ""
    /\ ret = ""
    /\ pc = [t \in Threads |-> "idle"]
    /\ pend = [t \in Threads |-> <<>>]
    /\ out = [t \in Threads |-> <<>>]

\* ------------------------------------------------------------------ calls
CallCodeString ==
    \E c \in Codes :
       /\ op' = "Code.String"
       /\ arg' = c
       /\ ret' = CodeString(c)
       /\ UNCHANGED <<r, url, url0, sanitized, conc>>

CallNewErr ==
    \E c \in Codes, msg \in Messages :
       /\ op' = "NewErr"
       /\ arg' = [c |-> c, msg |-> msg]
       /\ ret' = NewErr(c, msg)
       /\ UNCHANGED <<r, url, url0, sanitized, conc>>

\* The caller wraps the Err it has just made with a transport response.
CallNewErrorResponse ==
    /\ op = "NewErr"
    /\ \E res \in Responses(r.Response.Request.URL) :
          /\ r' = NewErrorResponse(res, ret)
          /\ op' = "NewErrorResponse"
          /\ arg' = [res |-> res, e |-> ret]
          /\ ret' = r'
    /\ UNCHANGED <<url, url0, sanitized, conc>>

CallErrError ==
    /\ op' = "Err.Error"
    /\ arg' = r.Err
    /\ ret' = ErrError(r.Err)
    /\ UNCHANGED <<r, url, url0, sanitized, conc>>

CallSanitizeURL ==
    /\ op' = "sanitizeURL"
    /\ arg' = [r |-> r, url |-> url, sanitized |-> sanitized]
    /\ url' = sanitizeURL(r.Response.Request.URL, url)
    /\ ret' = r.Response.Request.URL
    /\ sanitized' = TRUE
    /\ UNCHANGED <<r, url0, conc>>

CallErrorResponseError ==
    \E fn \in MethodValueAddrs :
       /\ op' = "ErrorResponse.Error"
       /\ arg' = [r |-> r, url |-> url, sanitized |-> sanitized]
       /\ url' = sanitizeURL(r.Response.Request.URL, url)
       /\ ret' = ErrorResponseError(r, url, fn)
       /\ sanitized' = TRUE
       /\ UNCHANGED <<r, url0, conc>>

\* Rendering and sanitizing, for every request URL.
Next ==
    \/ CallSanitizeURL
    \/ CallErrorResponseError

Spec == Init /\ [][Next]_vars

\* Codes and Errs, for the request of the specification's example.
InitErr == Init /\ url0 = ExampleURL

NextErr ==
    \/ CallCodeString
    \/ CallNewErr
    \/ CallNewErrorResponse
    \/ CallErrError

SpecErr == InitErr /\ [][NextErr]_vars

\* ------------------------------------------------------------------ concurrent calls
\* ErrorResponse.Error called by several goroutines on one ErrorResponse,
\* without synchronisation.  Each call reads uri.RawQuery in uri.Query()
\* (line 108), may store uri.RawQuery (line 111) and reads it again when
\* Sprintf renders the URL (line 77).

Storing(t) == {o \in Threads \ {t} : pc[o] = "store"}

\* A string header is two words: a read that races with a store may see
\* the data pointer of one string with the length of the other.
Torn(old, new) ==
    {SubSeq(new, 1, Min(Len(old), Len(new))), SubSeq(old, 1, Min(Len(old), Len(new)))}

\* What a read of uri.RawQuery by call t may observe.
RacyRead(t) ==
    {url.RawQuery}
      \cup {pend[o] : o \in Storing(t)}
      \cup UNION {Torn(url.RawQuery, pend[o]) : o \in Storing(t)}

Begin(t) ==
    /\ pc[t] = "idle"
    /\ pc' = [pc EXCEPT ![t] = IF r.Response.Request.URL = NilPtr THEN "format" ELSE "query"]
    /\ UNCHANGED <<r, url, url0, sanitized, op, arg, ret, pend, out>>

QueryStep(t) ==
    /\ pc[t] = "query"
    /\ \E q \in RacyRead(t) :
          LET params == Query([url EXCEPT !.RawQuery = q])
          IN IF Len(Get(params, Token)) > 0
             THEN /\ pend' = [pend EXCEPT ![t] = Encode(Set(params, Token, Redacted))]
                  /\ pc' = [pc EXCEPT ![t] = "store"]
             ELSE /\ pc' = [pc EXCEPT ![t] = "format"]
                  /\ UNCHANGED pend
    /\ UNCHANGED <<r, url, url0, sanitized, op, arg, ret, out>>

Store(t) ==
    /\ pc[t] = "store"
    /\ url' = [url EXCEPT !.RawQuery = pend[t]]
    /\ sanitized' = TRUE
    /\ pc' = [pc EXCEPT ![t] = "format"]
    /\ UNCHANGED <<r, url0, op, arg, ret, pend, out>>

Format(t) ==
    /\ pc[t] = "format"
    /\ \E q \in RacyRead(t), fn \in MethodValueAddrs :
          out' = [out EXCEPT ![t] = Sprintf(r, [url EXCEPT !.RawQuery = q], fn)]
    /\ pc' = [pc EXCEPT ![t] = "done"]
    /\ UNCHANGED <<r, url, url0, sanitized, op, arg, ret, pend>>

InitConc == Init /\ r.Err = NewErr(Unauthenticated, "")

NextConc == \E t \in Threads : Begin(t) \/ QueryStep(t) \/ Store(t) \/ Format(t)

SpecConc == InitConc /\ [][NextConc]_vars

\* A store to uri.RawQuery by one call while another call is at a read or
\* a store of it, with nothing ordering the two.
RaceState ==
    \E t \in Threads : \E o \in Threads \ {t} :
       pc[t] = "store" /\ pc[o] \in {"query", "store", "format"}

\* What a call returns when it runs alone on the URL as built.
Alone == {ErrorResponseError(r, url0, fn) : fn \in MethodValueAddrs}

\* ------------------------------------------------------------------ properties
\* sub occurs in s as a run of consecutive lexemes
Contains(s, sub) ==
    \E i \in 1..(Len(s) - Len(sub) + 1) : SubSeq(s, i, i + Len(sub) - 1) = sub

IsURLCall == op \in {"sanitizeURL", "ErrorResponse.Error"}

HasURL == r.Response.Request.URL = URLPtr

\* The values of the token parameter in the query of u that are not empty.
TokenValues(u) ==
    LET m == Query(u)
    IN IF Token \in DOMAIN m
       THEN {m[Token][i] : i \in 1..Len(m[Token])} \ {<<>>}
       ELSE {}

Values(m, k) == IF k \in DOMAIN m THEN {m[k][i] : i \in 1..Len(m[k])} ELSE {}

\* C1: the string ErrorResponse.Error returns contains none of the
\* non-empty values the token parameters of the request URL had, also when
\* token occurs several times and its first occurrence is empty.
C1_NoTokenLeak ==
    (op = "ErrorResponse.Error" /\ HasURL)
       => \A v \in TokenValues(arg.url) : ~Contains(ret, v)

\* C2: for a fully populated response ErrorResponse.Error returns
\* "<method> <sanitized URL>: <status code> <rendered err>", the rendered
\* err being what Err.Error returns for the wrapped Err.
C2_ErrorFormat ==
    (op = "ErrorResponse.Error" /\ HasURL)
       => ret = <<r.Response.Request.Method, " ">> \o URLString(url)
                  \o <<":", " ", ToString(r.Response.StatusCode), " ">>
                  \o <<ToString(r.Err.Code), ":", " ", CodeString(r.Err.Code)>>

\* C3: after ErrorResponse.Error or sanitizeURL the response, its request
\* and the request URL with its raw query string are as before the call.
C3_InputUnchanged ==
    IsURLCall => (r = arg.r /\ url = arg.url)

\* C4: in every interleaving of concurrent ErrorResponse.Error calls on one
\* request URL no store to the URL is concurrent with another access of
\* it, and every call returns the string it returns when run alone.
C4_NoRaceSameResult ==
    /\ ~RaceState
    /\ \A t \in Threads : pc[t] = "done" => out[t] \in Alone

\* C5: sanitizeURL is idempotent: applied to a URL sanitizeURL has already
\* been applied to, it yields that same URL.
C5_Idempotent ==
    (op = "sanitizeURL" /\ arg.sanitized)
       => (url = arg.url /\ ret = arg.r.Response.Request.URL)

C5_Witness ==
    /\ op = "sanitizeURL" /\ HasURL /\ arg.sanitized
    /\ url = arg.url
    /\ url # url0
    /\ TokenValues(url) = {Redacted}

\* C6: for a URL whose query has a non-empty token parameter sanitizeURL
\* returns a URL whose token parameter has the value REDACTED, whose other
\* parameters keep their sets of values, and whose scheme, host, path and
\* fragment are unchanged.
C6_Redacts ==
    (op = "sanitizeURL" /\ HasURL /\ TokenValues(arg.url) # {})
       => /\ Values(Query(url), Token) = {Redacted}
          /\ \A k \in (DOMAIN Query(arg.url) \cup DOMAIN Query(url)) \ {Token} :
                Values(Query(url), k) = Values(Query(arg.url), k)
          /\ [url EXCEPT !.RawQuery = <<>>] = [arg.url EXCEPT !.RawQuery = <<>>]

\* C7: sanitizeURL returns nil for a nil URL, and returns a URL with no
\* token parameter unchanged, its query string as given.
C7_NoTokenUntouched ==
    (op = "sanitizeURL" /\ (~HasURL \/ Token \notin DOMAIN Query(arg.url)))
       => (url = arg.url /\ ret = r.Response.Request.URL)

C7_Witness ==
    /\ op = "sanitizeURL" /\ HasURL
    /\ Token \notin DOMAIN Query(arg.url)
    /\ Encode(Query(arg.url)) # arg.url.RawQuery
    /\ url.RawQuery = arg.url.RawQuery

\* C8: Code.String gives each of the six defined codes a non-empty
\* description of its own that is not the fallback, and gives every other
\* value the fallback.
C8_StringTotal ==
    op = "Code.String"
       => IF arg \in DefinedCodes
          THEN /\ ret # ""
               /\ ret # Fallback
               /\ \A d \in DefinedCodes \ {arg} : CodeString(d) # ret
          ELSE ret = Fallback

\* C9: NewErr keeps the code it is given; with an empty message the Err
\* carries the description of the code, otherwise the message as given.
C9_NewErr ==
    op = "NewErr"
       => /\ ret.Code = arg.c
          /\ arg.msg = "" => ret.Message = CodeString(arg.c)
          /\ arg.msg # "" => ret.Message = arg.msg

C9_Witness ==
    /\ op = "NewErr"
    /\ arg.msg = ""
    /\ arg.c = Unauthenticated
    /\ ret = [Message |-> "Unauthenticated request", Code |-> Unauthenticated]

\* C10: Err.Error returns "<numeric code>: <description of the code>"
\* whatever the Message is, and leaves the Err unchanged.
C10_ErrErrorFromCode ==
    op = "Err.Error"
       => /\ ret = <<ToString(arg.Code), ":", " ", CodeString(arg.Code)>>
          /\ ~Contains(ret, <<"custom">>)
          /\ r.Err = arg

C10_Witness ==
    /\ op = "Err.Error"
    /\ arg.Message = "custom"
    /\ arg.Code = Unauthenticated
    /\ ret = <<"2", ":", " ", "Unauthenticated request">>

====
